---- MODULE Spec2Model ----
(***************************************************************************)
(* Cache-coherence protocol of server.go: one package-level snapshot       *)
(* (cache.data), one package-level decode buffer (data), one sync.Mutex    *)
(* (cacheMutex), any number of getMapDataHandler goroutines and the single *)
(* updateCacheAsync goroutine.                                             *)
(*                                                                         *)
(* Go slices are modelled as headers (backing array, length) over a heap   *)
(* of backing arrays, because `cache.data = data` copies the header only:  *)
(* after it the snapshot and the decode buffer share one backing array,    *)
(* and cursor.All(ctx, &data) decodes into the array of `data` in place.   *)
(***************************************************************************)
EXTENDS Integers, Sequences, FiniteSets, TLC

\* ---------------------------------------------------------------- bounds
NumReq == 2          \* concurrent getMapDataHandler goroutines
MaxLen == 2          \* largest number of records one fetch returns
MaxPending == 2      \* deferred calls of the loop are counted up to this

\* ----------------------------------------------------------------- tasks
Req == 1..NumReq
Tick == 0            \* the updateCacheAsync goroutine
Tasks == Req \cup {Tick}
NoTask == -1         \* cacheMutex unlocked

\* ------------------------------------------------------ records and heap
\* The backend collection takes the states 0..MaxLen; in state v it holds v
\* records, none of which it holds in another state.  A MapLocation is
\* <<v, i>>, record i of state v; ZeroRecord is the zero MapLocation{}.
ZeroRecord == <<0, 0>>

\* collection.Find(ctx, bson.D{}): the complete record set of state v, in
\* the backend's return order
FindAll(v) == [i \in 1..v |-> <<v, i>>]
BackendResults == {FindAll(v) : v \in 0..MaxLen}

NilArr == 0          \* the backing array of a nil slice
ArrIds == {1, 2}     \* at most two backing arrays are referenced at once
NilSlice == [arr |-> NilArr, len |-> 0]

VARIABLES
  mainPc,      \* position of main
  initErr,     \* what initMongoDB returned, "none" before it has returned
  cacheMutex,  \* holder of the sync.Mutex, or NoTask
  pc,          \* position of every goroutine
  data,        \* header of the package-level decode buffer `data`
  cache,       \* header of cache.data
  heap,        \* backing arrays: id -> contents up to capacity
  cursor,      \* documents of the open cursor of the lock holder
  ctxDone,     \* the holder's context.WithTimeout has expired
  w,           \* what each handler has written to its ResponseWriter
  lastOk,      \* history: record set of the latest successful fetch
  lastTick,    \* history: outcome of the tick that finished last
  nFind,       \* history: backend fetches issued by the current call
  sawFill,     \* history: the call arrived while a cold fill was in flight
  pending,     \* deferred cancel() calls of updateCacheAsync not yet run
  raced        \* history: how the race of Racer with a tick has gone

vars == <<mainPc, initErr, cacheMutex, pc, data, cache, heap, cursor, ctxDone,
          w, lastOk, lastTick, nFind, sawFill, pending, raced>>

\* what only main changes
proc == <<mainPc, initErr>>

hist == <<lastOk, lastTick, nFind, sawFill>>

\* ------------------------------------------------------------- slices
Cap(h, s) == IF s.arr = NilArr THEN 0 ELSE Len(h[s.arr])
Elems(h, s) == IF s.arr = NilArr THEN <<>> ELSE SubSeq(h[s.arr], 1, s.len)

\* the records a reader of cache.data sees
CacheSeq == Elems(heap, cache)

\* len(cache.data) == 0
IsEmptyAlways(c) == TRUE
IsEmpty(c) == c.len = 0

\* growth of append by one element on a full slice
GrowCap(c) == IF c = 0 THEN 1 ELSE 2 * c

Pad(s, n) == s \o [i \in 1..(n - Len(s)) |-> ZeroRecord]

(***************************************************************************)
(* cursor.All(ctx, &data).  The decode state is                            *)
(*   cur     contents of the array sliceVal points at, up to its capacity  *)
(*   len     length of sliceVal                                            *)
(*   orig    contents of the array `data` pointed at on entry              *)
(*   moved   append has reallocated: cur is a new array                    *)
(* Before the first reallocation every write lands in the array `data`     *)
(* pointed at on entry, so it is visible through every header sharing it.  *)
(***************************************************************************)
AllStart(h, d) ==
  [cur |-> IF d.arr = NilArr THEN <<>> ELSE h[d.arr], len |-> d.len,
   orig |-> IF d.arr = NilArr THEN <<>> ELSE h[d.arr], moved |-> FALSE]

\* addFromBatch, `if sliceVal.Len() == index`: append a zero element and
\* re-slice to the capacity
AllGrow(s, index) ==
  IF s.len # index THEN s
  ELSE IF Len(s.cur) > s.len
       THEN LET c == [s.cur EXCEPT ![s.len + 1] = ZeroRecord]
            IN [s EXCEPT !.cur = c, !.len = Len(c),
                         !.orig = IF s.moved THEN s.orig ELSE c]
       ELSE LET c == Pad(SubSeq(s.cur, 1, s.len), GrowCap(Len(s.cur)))
            IN [s EXCEPT !.cur = c, !.len = Len(c), !.moved = TRUE]

\* addFromBatch, bson.Unmarshal(doc, &sliceVal[index])
AllDecode(s, index, rec) ==
  LET g == AllGrow(s, index)
      c == [g.cur EXCEPT ![index + 1] = rec]
  IN [g EXCEPT !.cur = c, !.orig = IF g.moved THEN g.orig ELSE c]

RECURSIVE AllLoop(_, _, _)
\* the first k documents of `docs` decoded
AllLoop(s, docs, k) ==
  IF k = 0 THEN s ELSE AllDecode(AllLoop(s, docs, k - 1), k - 1, docs[k])

\* The ways cursor.All ends: "ok"; "decode": Unmarshal of document k+1
\* fails inside addFromBatch, `data` is not reassigned; "cursor": Next
\* fails after k documents, `data` is reassigned to the k decoded elements
\* and c.Err() is returned.
AllOutcomes(docs) ==
  {[kind |-> "ok", k |-> Len(docs)]}
    \cup {[kind |-> "decode", k |-> k] : k \in 0..(Len(docs) - 1)}
    \cup {[kind |-> "cursor", k |-> k] : k \in 0..Len(docs)}

AllRun(h, d, docs, o) ==
  LET s == AllLoop(AllStart(h, d), docs, o.k)
  IN IF o.kind = "decode" THEN AllGrow(s, o.k) ELSE s

\* id of the array a reallocation returns: one that no live header uses
NewArr(d, c) ==
  IF d.arr # NilArr /\ d.arr # c.arr THEN d.arr
  ELSE CHOOSE a \in ArrIds : a # c.arr

\* `data` after cursor.All
AllData(d, c, s, o) ==
  IF o.kind = "decode" THEN d
  ELSE [arr |-> IF s.moved THEN NewArr(d, c) ELSE d.arr, len |-> o.k]

\* lines 93-99 and 130-137: `cache.data = data` is reached on success only
UpdateCacheAlways(ok, c, d) == d
UpdateCache(ok, c, d) == IF ok THEN d ELSE c

\* what no header can read is garbage: an array no header points at is
\* collected, an element beyond the length of every header of its array is
\* written again before any slice exposes it
Live(h, d, c) ==
  [a \in ArrIds |->
     LET n == IF a = d.arr /\ a = c.arr
              THEN (IF d.len > c.len THEN d.len ELSE c.len)
              ELSE IF a = d.arr THEN d.len ELSE c.len
     IN IF a = d.arr \/ a = c.arr
        THEN [i \in 1..Len(h[a]) |-> IF i <= n THEN h[a][i] ELSE ZeroRecord]
        ELSE <<>>]

\* the heap after cursor.All and the assignment
AllHeap(h, d, c, s, o, d2, c2) ==
  LET h1 == IF d.arr = NilArr THEN h ELSE [h EXCEPT ![d.arr] = s.orig]
      h2 == IF s.moved /\ o.kind # "decode"
            THEN [h1 EXCEPT ![NewArr(d, c)] = s.cur] ELSE h1
  IN Live(h2, d2, c2)

\* ------------------------------------------------------------ responses
NoResponse == [status |-> 0, null |-> FALSE, body |-> <<>>, msg |-> ""]

\* json.NewEncoder(w).Encode(cache.data): a nil slice encodes as null, any
\* other slice as the array of its elements in order
Encode(h, c) ==
  [status |-> 200, null |-> (c.arr = NilArr), body |-> Elems(h, c), msg |-> ""]

\* the messages of lines 88, 94 and 105
FetchMsg == "Failed to fetch map data from MongoDB"
DecodeMsg == "Failed to decode map data"
EncodeMsg == "Failed to encode map data as JSON"

\* http.Error(w, msg, http.StatusInternalServerError)
Error(m) == [status |-> 500, null |-> FALSE, body |-> <<>>, msg |-> m]

\* -------------------------------------------------------------- initial
Init ==
  /\ mainPc = "start"
  /\ initErr = "none"
  /\ cacheMutex = NoTask
  /\ pc = [t \in Tasks |-> IF t = Tick THEN "unstarted" ELSE "idle"]
  /\ data = NilSlice
  /\ cache = NilSlice
  /\ heap = [a \in ArrIds |-> <<>>]
  /\ cursor = <<>>
  /\ ctxDone = FALSE
  /\ w = [t \in Req |-> NoResponse]
  /\ lastOk = <<>>
  /\ lastTick = "none"
  /\ nFind = [t \in Tasks |-> 0]
  /\ sawFill = [t \in Req |-> FALSE]
  /\ pending = 0
  /\ raced = "no"

InFetch(t) == pc[t] \in {"find", "all"}

\* ------------------------------------------------- the shared fetch steps
\* collection.Find(ctx, bson.D{}) answered with a cursor over docs: only
\* while ctx is live
FindOk(t, docs) ==
  /\ pc[t] = "find"
  /\ ~ctxDone
  /\ pc' = [pc EXCEPT ![t] = "all"]
  /\ cursor' = docs
  /\ UNCHANGED <<proc, cacheMutex, data, cache, heap, ctxDone, lastOk,
                 lastTick, sawFill>>

\* collection.Find returns an error: the backend reports one, or ctx has
\* expired
FindErrs(t) == pc[t] = "find"

\* cursor.All(context.Background(), &data) returns with outcome o; the
\* timeout context is not the one passed, so only the backend ends it
AllEnds(t, o) ==
  /\ pc[t] = "all"
  /\ o \in AllOutcomes(cursor)
  /\ LET s == AllRun(heap, data, cursor, o)
         d2 == AllData(data, cache, s, o)
         c2 == UpdateCache(o.kind = "ok", cache, d2)
     IN /\ data' = d2
        /\ cache' = c2
        /\ heap' = AllHeap(heap, data, cache, s, o, d2, c2)
  /\ cursor' = <<>>
  /\ lastOk' = IF o.kind = "ok" THEN cursor ELSE lastOk
  /\ UNCHANGED proc

\* ------------------------------------------------------------------ main
\* what initMongoDB returns: an error of godotenv.Load (line 45), the unset
\* MONGO_URI (line 51), an error of mongo.Connect (line 59) or of Ping
\* (line 67), or nil (line 72)
InitOutcomes == {"envErr", "noUri", "connectErr", "pingErr", "ok"}

\* lines 146-150: main returns when initMongoDB returned an error
AfterInitIgnoresErr(e) == "init"
AfterInit(e) == IF e = "ok" THEN "init" ELSE "exited"

\* lines 146-150
MainInit ==
  /\ mainPc = "start"
  /\ \E e \in InitOutcomes :
       /\ initErr' = e
       /\ mainPc' = AfterInit(e)
  /\ UNCHANGED <<cacheMutex, pc, data, cache, heap, cursor, ctxDone, w, hist>>

\* line 156, go updateCacheAsync(updateInterval)
MainGo ==
  /\ mainPc = "init"
  /\ mainPc' = "spawned"
  /\ pc' = [pc EXCEPT ![Tick] = "wait"]
  /\ UNCHANGED <<initErr, cacheMutex, data, cache, heap, cursor, ctxDone, w,
                 hist>>

\* lines 159-165, the handler is registered and the listener bound
MainServe ==
  /\ mainPc = "spawned"
  /\ mainPc' = "serving"
  /\ UNCHANGED <<initErr, cacheMutex, pc, data, cache, heap, cursor, ctxDone,
                 w, hist>>

\* ------------------------------------------------------ getMapDataHandler
\* line 76, the goroutine calls cacheMutex.Lock()
HandlerCall(t) ==
  /\ mainPc = "serving"
  /\ pc[t] = "idle"
  /\ pc' = [pc EXCEPT ![t] = "lock"]
  /\ sawFill' = [sawFill EXCEPT
                   ![t] = cacheMutex \in Req /\ InFetch(cacheMutex)]
  /\ UNCHANGED <<proc, cacheMutex, data, cache, heap, cursor, ctxDone, w,
                 lastOk, lastTick, nFind>>

\* where the handler goes after line 81
AfterCheck(c) == IF IsEmpty(c) THEN "find" ELSE "encode"

\* lines 76-83, Lock() returns, the header is set, the snapshot is tested
\* and the timeout context of a cold fill is created
HandlerLockNoWait(t) ==
  /\ pc[t] = "lock"
  /\ cacheMutex' = t
  /\ pc' = [pc EXCEPT ![t] = AfterCheck(cache)]
  /\ ctxDone' = FALSE
  /\ UNCHANGED <<proc, data, cache, heap, cursor, w, hist>>

HandlerLock(t) ==
  /\ pc[t] = "lock"
  /\ cacheMutex = NoTask
  /\ cacheMutex' = t
  /\ pc' = [pc EXCEPT ![t] = AfterCheck(cache)]
  /\ ctxDone' = FALSE
  /\ UNCHANGED <<proc, data, cache, heap, cursor, w, hist>>

\* line 89, the handler returns after a failed Find
AfterFindErrRetries == "find"
AfterFindErr == "ret"

\* lines 86-90
HandlerFind(t) ==
  /\ pc[t] = "find" /\ cacheMutex = t
  /\ nFind' = [nFind EXCEPT ![t] = @ + 1]
  /\ \/ /\ \E docs \in BackendResults : FindOk(t, docs)
        /\ UNCHANGED w
     \/ /\ FindErrs(t)
        /\ pc' = [pc EXCEPT ![t] = AfterFindErr]
        /\ w' = [w EXCEPT ![t] = Error(FetchMsg)]
        /\ UNCHANGED <<proc, cacheMutex, data, cache, heap, cursor, ctxDone,
                       lastOk, lastTick, sawFill>>

\* lines 93-100
HandlerAll(t) ==
  /\ cacheMutex = t /\ t \in Req
  /\ \E o \in AllOutcomes(cursor) :
       /\ AllEnds(t, o)
       /\ pc' = [pc EXCEPT ![t] = IF o.kind = "ok" THEN "encode" ELSE "ret"]
       /\ w' = IF o.kind = "ok" THEN w
               ELSE [w EXCEPT ![t] = Error(DecodeMsg)]
  /\ UNCHANGED <<cacheMutex, ctxDone, lastTick, nFind, sawFill>>

\* lines 103-107
HandlerEncode(t) ==
  /\ pc[t] = "encode"
  /\ pc' = [pc EXCEPT ![t] = "ret"]
  /\ \/ w' = [w EXCEPT ![t] = Encode(heap, cache)]
     \/ w' = [w EXCEPT ![t] = Error(EncodeMsg)]
  /\ UNCHANGED <<proc, cacheMutex, data, cache, heap, cursor, ctxDone, hist>>

\* the handler returns: the deferred cacheMutex.Unlock() of line 77 runs
\* and the response is handed to the client
HandlerReturn(t) ==
  /\ pc[t] = "ret"
  /\ pc' = [pc EXCEPT ![t] = "idle"]
  /\ cacheMutex' = NoTask
  /\ w' = [w EXCEPT ![t] = NoResponse]
  /\ ctxDone' = FALSE
  /\ nFind' = [nFind EXCEPT ![t] = 0]
  /\ sawFill' = [sawFill EXCEPT ![t] = FALSE]
  /\ UNCHANGED <<proc, data, cache, heap, cursor, lastOk, lastTick>>

\* ------------------------------------------------------- updateCacheAsync
\* lines 115-117, ticker.C delivers and the goroutine calls Lock()
TickFire ==
  /\ pc[Tick] = "wait"
  /\ pc' = [pc EXCEPT ![Tick] = "lock"]
  /\ lastTick' = "none"
  /\ nFind' = [nFind EXCEPT ![Tick] = 0]
  /\ UNCHANGED <<proc, cacheMutex, data, cache, heap, cursor, ctxDone, w,
                 lastOk, sawFill>>

\* lines 117-119, Lock() returns and the timeout context is created
TickLock ==
  /\ pc[Tick] = "lock"
  /\ cacheMutex = NoTask
  /\ cacheMutex' = Tick
  /\ pc' = [pc EXCEPT ![Tick] = "find"]
  /\ ctxDone' = FALSE
  /\ UNCHANGED <<proc, data, cache, heap, cursor, w, hist>>

\* where the loop goes after an iteration: `continue` on the error paths
TickNextStops(ok) == IF ok THEN "wait" ELSE "stopped"
TickNext(ok) == "wait"

\* the Unlock() calls of lines 125, 132 and 139
TickUnlockOnSuccess(ok) == IF ok THEN NoTask ELSE Tick
TickUnlock(ok) == NoTask

\* lines 122-127
TickFind ==
  /\ pc[Tick] = "find" /\ cacheMutex = Tick
  /\ nFind' = [nFind EXCEPT ![Tick] = @ + 1]
  /\ \/ /\ \E docs \in BackendResults : FindOk(Tick, docs)
        /\ UNCHANGED w
     \/ /\ FindErrs(Tick)
        /\ pc' = [pc EXCEPT ![Tick] = TickNext(FALSE)]
        /\ cacheMutex' = TickUnlock(FALSE)
        /\ lastTick' = "findErr"
        /\ ctxDone' = FALSE
        /\ UNCHANGED <<proc, data, cache, heap, cursor, w, lastOk, sawFill>>

\* lines 130-139
TickAll ==
  /\ cacheMutex = Tick
  /\ \E o \in AllOutcomes(cursor) :
       /\ AllEnds(Tick, o)
       /\ pc' = [pc EXCEPT ![Tick] = TickNext(o.kind = "ok")]
       /\ cacheMutex' = TickUnlock(o.kind = "ok")
       /\ lastTick' = IF o.kind = "ok" THEN "ok" ELSE "decodeErr"
  /\ ctxDone' = FALSE
  /\ UNCHANGED <<w, nFind, sawFill>>

\* ------------------------------------------------------------ environment
\* the 10 s of context.WithTimeout (lines 83, 119) elapse during a fetch
CtxTimeout ==
  /\ cacheMutex # NoTask /\ InFetch(cacheMutex)
  /\ ~ctxDone
  /\ ctxDone' = TRUE
  /\ UNCHANGED <<proc, cacheMutex, pc, data, cache, heap, cursor, w, hist>>

\* ------------------------------------------------------------- observers
\* `pending` and `raced` record what has happened and are read by no step
\* of the program.  Spec leaves them alone; SpecDefer counts the deferred
\* calls of the periodic loop; SpecRace follows the races of a request with
\* a tick.
TickLocks == pc[Tick] = "lock" /\ pc'[Tick] = "find"
TickEnds == pc[Tick] \in {"find", "all"} /\ pc'[Tick] \notin {"find", "all"}

\* line 120, `defer cancel()` in the body of the for loop: the call is
\* pushed on every iteration and runs when updateCacheAsync returns
Defer(n) == IF n < MaxPending THEN n + 1 ELSE n

\* the request whose races are followed; requests differ in nothing but
\* their number, so what holds of this one holds of each
Racer == 1

\* the race of request t with the periodic tick for an empty cache:
\*   "both"        both are blocked in Lock() and the snapshot is empty
\*   "reqFetched"  t got the lock first and has issued its Find
\*   "tickFirst"   the tick got the lock first
RaceNext(t) ==
  LET r == raced IN
  IF pc[t] = "ret" /\ pc'[t] = "idle"
    THEN (IF r = "reqFetched" /\ pc[Tick] = "lock" THEN r ELSE "no")
  ELSE IF TickEnds THEN (IF r = "reqFetched" THEN "no" ELSE r)
  ELSE IF TickLocks THEN (IF r = "both" THEN "tickFirst" ELSE r)
  ELSE IF pc[t] = "find" /\ pc'[t] # "find"
    THEN (IF r = "both" THEN "reqFetched" ELSE r)
  ELSE IF r = "no" /\ pc'[t] = "lock" /\ pc'[Tick] = "lock" /\ IsEmpty(cache')
    THEN "both"
  ELSE r

KeepObs == UNCHANGED <<pending, raced>>
CountDefers ==
  /\ pending' = IF TickLocks THEN Defer(pending) ELSE pending
  /\ UNCHANGED raced
FollowRaces ==
  /\ raced' = RaceNext(Racer)
  /\ UNCHANGED pending

Next ==
  \/ MainInit /\ KeepObs
  \/ MainGo /\ KeepObs
  \/ MainServe /\ KeepObs
  \/ (\E t \in Req : HandlerCall(t)) /\ KeepObs
  \/ (\E t \in Req : HandlerLock(t)) /\ KeepObs
  \/ (\E t \in Req : HandlerFind(t)) /\ KeepObs
  \/ (\E t \in Req : HandlerAll(t)) /\ KeepObs
  \/ (\E t \in Req : HandlerEncode(t)) /\ KeepObs
  \/ (\E t \in Req : HandlerReturn(t)) /\ KeepObs
  \/ TickFire /\ KeepObs
  \/ TickLock /\ KeepObs
  \/ TickFind /\ KeepObs
  \/ TickAll /\ KeepObs
  \/ CtxTimeout /\ KeepObs

NextDefer ==
  \/ MainInit /\ CountDefers
  \/ MainGo /\ CountDefers
  \/ MainServe /\ CountDefers
  \/ (\E t \in Req : HandlerCall(t)) /\ CountDefers
  \/ (\E t \in Req : HandlerLock(t)) /\ CountDefers
  \/ (\E t \in Req : HandlerFind(t)) /\ CountDefers
  \/ (\E t \in Req : HandlerAll(t)) /\ CountDefers
  \/ (\E t \in Req : HandlerEncode(t)) /\ CountDefers
  \/ (\E t \in Req : HandlerReturn(t)) /\ CountDefers
  \/ TickFire /\ CountDefers
  \/ TickLock /\ CountDefers
  \/ TickFind /\ CountDefers
  \/ TickAll /\ CountDefers
  \/ CtxTimeout /\ CountDefers

NextRace ==
  \/ MainInit /\ FollowRaces
  \/ MainGo /\ FollowRaces
  \/ MainServe /\ FollowRaces
  \/ (\E t \in Req : HandlerCall(t)) /\ FollowRaces
  \/ (\E t \in Req : HandlerLock(t)) /\ FollowRaces
  \/ (\E t \in Req : HandlerFind(t)) /\ FollowRaces
  \/ (\E t \in Req : HandlerAll(t)) /\ FollowRaces
  \/ (\E t \in Req : HandlerEncode(t)) /\ FollowRaces
  \/ (\E t \in Req : HandlerReturn(t)) /\ FollowRaces
  \/ TickFire /\ FollowRaces
  \/ TickLock /\ FollowRaces
  \/ TickFind /\ FollowRaces
  \/ TickAll /\ FollowRaces
  \/ CtxTimeout /\ FollowRaces

Spec == Init /\ [][Next]_vars
SpecDefer == Init /\ [][NextDefer]_vars
SpecRace == Init /\ [][NextRace]_vars

\* ------------------------------------------------------------ properties
\* a goroutine is between Lock() returning and Unlock()
InCS(t) ==
  IF t = Tick THEN pc[t] \in {"find", "all"}
  ELSE pc[t] \in {"find", "all", "encode", "ret"}

\* this step ends a fetch with an error
FetchFails ==
  \/ \E t \in Req : InFetch(t) /\ pc'[t] = "ret"
  \/ /\ InFetch(Tick) /\ pc'[Tick] \notin {"find", "all"}
     /\ lastTick' # "ok"

\* this step ends a fetch with `cache.data = data`
FetchSucceeds ==
  \/ \E t \in Req : InFetch(t) /\ pc'[t] = "encode"
  \/ /\ InFetch(Tick) /\ pc'[Tick] \notin {"find", "all"}
     /\ lastTick' = "ok"

\* the complete result of one fetch (the empty result included): the
\* records of a backend state are returned by fetches of that state only
IsWhole(s) == s \in BackendResults

\* C1: the snapshot and the body of every 200 response are empty or the
\* complete result of one single fetch, never records of two fetches.
C1_NoTornSnapshot ==
  /\ IsWhole(CacheSeq)
  /\ \A t \in Req : w[t].status = 200 => IsWhole(w[t].body)

\* C2: a refresh attempt that fails (Find error, timeout, decode error)
\* leaves the snapshot a reader sees exactly as it was.
C2_FailedRefreshKeepsSnapshot ==
  [][FetchFails => CacheSeq' = CacheSeq]_vars

\* C3: a request answered after a successful fetch of B, and before the
\* next successful fetch, is answered with exactly B in backend order.
C3_ReadSeesLatestFetch ==
  \A t \in Req : pc[t] = "ret" /\ w[t].status = 200 => w[t].body = lastOk

\* C4 as claimed: a request that arrived while a cold fill was in flight
\* never triggers a backend fetch of its own.
C4_NoFetchAfterColdFill ==
  \A t \in Req : sawFill[t] => nFind[t] = 0

\* C4 amended: one call issues at most one fetch, none before it has found
\* the snapshot empty, and a request that arrived during a cold fill issues
\* one only when the latest successful fetch so far returned no records (or
\* none has succeeded); served without a fetch, it found records.
C4_ColdFillFetches ==
  \A t \in Req :
    /\ nFind[t] <= 1
    /\ pc[t] \in {"idle", "lock", "find"} => nFind[t] = 0
    /\ pc[t] = "all" => nFind[t] = 1
    /\ sawFill[t] /\ InFetch(t) => lastOk = <<>>
    /\ sawFill[t] /\ pc[t] = "encode" /\ nFind[t] = 0 => lastOk # <<>>

C4_Witness ==
  \E t \in Req : sawFill[t] /\ pc[t] = "encode" /\ nFind[t] = 0

\* C5: at most one goroutine is inside a critical section, it is the holder
\* of cacheMutex, and a fetch lies wholly inside one critical section.
C5_MutualExclusion ==
  /\ Cardinality({t \in Tasks : InCS(t)}) <= 1
  /\ \A t \in Tasks : InCS(t) <=> cacheMutex = t
  /\ \A t \in Tasks : InFetch(t) => cacheMutex = t
  /\ cursor # <<>> => cacheMutex # NoTask /\ pc[cacheMutex] = "all"

C5_Witness ==
  \E t, u \in Req :
    t # u /\ InFetch(t) /\ pc[u] = "lock" /\ pc[Tick] = "lock"

\* C6: a handler whose cold fill failed answers 500 with no snapshot data,
\* the snapshot is still empty, and once it has returned it does not hold
\* the lock.
C6_ColdFillFailure ==
  \A t \in Req :
    /\ pc[t] = "ret" /\ w[t].msg \in {FetchMsg, DecodeMsg} =>
         /\ w[t].status = 500 /\ w[t].body = <<>> /\ ~w[t].null
         /\ cache.len = 0 /\ CacheSeq = <<>>
         /\ cacheMutex = t
    /\ pc[t] = "idle" => cacheMutex # t

C6_Witness ==
  \E t \in Req : pc[t] = "ret" /\ w[t].msg = DecodeMsg /\ data.len > 0

\* C7: a goroutine that is not between its Lock() and its Unlock() does not
\* hold cacheMutex: a handler that has returned on any path, and the
\* periodic loop waiting for its next tick after any outcome.
C7_LockReleasedOnEveryPath ==
  /\ \A t \in Req : pc[t] \in {"idle", "lock"} => cacheMutex # t
  /\ pc[Tick] \in {"unstarted", "wait", "lock", "stopped"} => cacheMutex # Tick

C7_Witness ==
  /\ pc[Tick] = "wait" /\ lastTick = "findErr"
  /\ \E t \in Req : pc[t] = "encode"

\* C8: the periodic goroutine never stops; after a tick whose fetch or
\* decode failed it waits for the next tick, which it can always take.
C8_FailedTickNotFatal ==
  /\ pc[Tick] # "stopped"
  /\ pc[Tick] = "wait" => ENABLED TickFire
  /\ pc[Tick] = "lock" /\ cacheMutex = NoTask => ENABLED TickLock

C8_Witness ==
  lastTick = "decodeErr" /\ pc[Tick] = "wait" /\ cacheMutex = NoTask

\* C9: a fetch that is still running when its timeout expires ends as a
\* failure.
C9_TimeoutEndsFetch ==
  [][ctxDone /\ cacheMutex # NoTask /\ InFetch(cacheMutex) => ~FetchSucceeds]_vars

\* C10 as claimed: once populated the snapshot never is empty again.
C10_StaysPopulated ==
  [][CacheSeq # <<>> => CacheSeq' # <<>>]_vars

\* C10 amended: the snapshot has exactly as many records as the latest
\* successful fetch returned (none before the first), so a failure never
\* changes whether it is empty, and a handler fetches on demand only while
\* the latest successful fetch returned no records.
C10_SnapshotStateMachine ==
  /\ cache.len = Len(lastOk)
  /\ Len(CacheSeq) = Len(lastOk)
  /\ \A t \in Req : InFetch(t) => lastOk = <<>>

C10_Witness ==
  /\ lastTick \in {"findErr", "decodeErr"} /\ cache.len > 0
  /\ \E t \in Req : pc[t] = "encode" /\ nFind[t] = 0

C12_CancelReleasedBeforeNextTick ==
  pc[Tick] \in {"wait", "lock"} => pending = 0

\* C13: when initMongoDB returns an error (configuration missing, connect
\* or ping error) main returns: the periodic goroutine is never started, no
\* handler ever runs, nobody takes the lock and no fetch is ever issued.
C13_FatalStartup ==
  initErr \notin {"none", "ok"} =>
    /\ mainPc = "exited"
    /\ pc[Tick] = "unstarted"
    /\ \A t \in Req : pc[t] = "idle"
    /\ \A t \in Tasks : nFind[t] = 0
    /\ cacheMutex = NoTask /\ cursor = <<>>
    /\ cache = NilSlice /\ data = NilSlice

C13_Witness == initErr = "pingErr" /\ mainPc = "exited"

\* C14: a handler that finds the snapshot populated, and so fetches
\* nothing, serves the record set of the latest successful fetch, however
\* many refreshes have failed since.
C14_ServesLastGoodSnapshot ==
  \A t \in Req : pc[t] = "encode" /\ nFind[t] = 0 => CacheSeq = lastOk

\* this step ends cursor.All with an error
AllFails ==
  \/ \E t \in Req : pc[t] = "all" /\ pc'[t] = "ret"
  \/ pc[Tick] = "all" /\ pc'[Tick] # "all" /\ lastTick' = "decodeErr"

\* C15: a fetch whose decoding fails leaves the snapshot a reader sees as it
\* was before the attempt, with none of the partially decoded records.
C15_DecodeFailureKeepsSnapshot ==
  [][AllFails => CacheSeq' = CacheSeq]_vars

\* C16: one handler call issues at most one backend fetch and one tick
\* exactly one, failed or not; after a failed cold fill the handler is out
\* of the fetch with the snapshot still empty, so the next attempt is another
\* call's.
C16_NoImmediateRetry ==
  /\ \A t \in Tasks : nFind[t] <= 1
  /\ pc[Tick] \in {"lock", "find"} => nFind[Tick] = 0
  /\ pc[Tick] = "all" => nFind[Tick] = 1
  /\ pc[Tick] = "wait" /\ lastTick # "none" => nFind[Tick] = 1
  /\ \A t \in Req :
       pc[t] = "ret" /\ w[t].msg \in {FetchMsg, DecodeMsg} =>
         nFind[t] = 1 /\ cache.len = 0

C16_Witness ==
  /\ pc[Tick] = "wait" /\ lastTick = "findErr"
  /\ \E t \in Req : pc[t] = "ret" /\ w[t].msg = FetchMsg

\* C17: while a fetch is in flight its goroutine holds cacheMutex, and no
\* other handler reads the snapshot, has a response or can take the lock,
\* whether the snapshot has records or not; a handler that only reads holds
\* the lock while it does.
C17_LockHeldAcrossFetch ==
  /\ \A t \in Tasks :
       InFetch(t) =>
         /\ cacheMutex = t
         /\ \A u \in Req \ {t} :
              /\ pc[u] \in {"idle", "lock"}
              /\ w[u] = NoResponse
              /\ ~ENABLED HandlerLock(u)
  /\ \A u \in Req : pc[u] \in {"encode", "ret"} => cacheMutex = u

C17_Witness ==
  InFetch(Tick) /\ cache.len > 0 /\ \E u \in Req : pc[u] = "lock"

\* a step of the goroutine that holds cacheMutex
HolderStep ==
  \/ \E t \in Req :
       /\ cacheMutex = t
       /\ HandlerFind(t) \/ HandlerAll(t) \/ HandlerEncode(t) \/ HandlerReturn(t)
  \/ cacheMutex = Tick /\ (TickFind \/ TickAll)

\* C18: no goroutine waits for cacheMutex while holding it; whenever the
\* lock is held its holder can take a step, and whenever it is free a
\* waiting goroutine can take it.
C18_DeadlockFree ==
  /\ \A t \in Tasks : pc[t] = "lock" => cacheMutex # t
  /\ cacheMutex # NoTask => ENABLED HolderStep
  /\ \A t \in Req : pc[t] = "lock" /\ cacheMutex = NoTask => ENABLED HandlerLock(t)
  /\ pc[Tick] = "lock" /\ cacheMutex = NoTask => ENABLED TickLock

C18_Witness ==
  /\ cacheMutex \in Req /\ pc[cacheMutex] = "all"
  /\ pc[Tick] = "lock"
  /\ \E u \in Req : pc[u] = "lock"

\* the next step of t reads or writes `data` or cache.data: cursor.All
\* (lines 93, 130), the assignment (99, 137), Encode (104); the test of
\* line 81 is part of the step that takes the lock
Accessing(t) ==
  IF t = Tick THEN pc[t] = "all" ELSE pc[t] \in {"all", "encode"}

\* C19: `data` and cache.data are read and written only by the goroutine
\* holding cacheMutex, never by two goroutines at once.
C19_LockDiscipline ==
  /\ \A t \in Tasks : Accessing(t) => cacheMutex = t
  /\ Cardinality({t \in Tasks : Accessing(t)}) <= 1

C19_Witness ==
  /\ pc[Tick] = "all" /\ data.arr = cache.arr /\ cache.len > 0
  /\ \E u \in Req : pc[u] = "lock"

TypeOK ==
  /\ cacheMutex \in Tasks \cup {NoTask}
  /\ \A t \in Req : pc[t] \in {"idle", "lock", "find", "all", "encode", "ret"}
  /\ mainPc \in {"start", "init", "spawned", "serving", "exited"}
  /\ initErr \in InitOutcomes \cup {"none"}
  /\ pc[Tick] \in {"unstarted", "wait", "lock", "find", "all", "stopped"}
  /\ data.arr \in ArrIds \cup {NilArr} /\ data.len <= Cap(heap, data)
  /\ cache.arr \in ArrIds \cup {NilArr} /\ cache.len <= Cap(heap, cache)
  /\ lastOk \in BackendResults
  /\ pending \in 0..MaxPending
  /\ raced \in {"no", "both", "reqFetched", "tickFirst"}
====
